---- MODULE Spec2Model ----
(***************************************************************************)
(* Model of cmd/substream-exchange/cli/root.go: runRoot with its block     *)
(* count argument, the Pipeline, its subscription hub set-up, the          *)
(* pair-update consumer goroutine and the per-block handler built by       *)
(* handlerFactory.                                                         *)
(*                                                                         *)
(* The packages state, subscription, exchange and indexer are used by      *)
(* root.go; their operations follow the contracts of the specification     *)
(* (sections 4.1 to 4.3).                                                  *)
(***************************************************************************)
EXTENDS Integers, Sequences, FiniteSets, TLC

(***************************************************************************)
(* Bounds of the model.                                                    *)
(***************************************************************************)
\* Highest block height the block source delivers.
MaxHeight == 3
\* Largest block count given on the command line.
MaxCount == 2
\* Number of times the program is launched (first run plus resumes).
MaxRuns == 2
\* Capacity of a subscriber's queue of pending deltas.
QueueCap == 2

(***************************************************************************)
(* Program constants.                                                      *)
(***************************************************************************)
\* root.go:96, the store names in construction order.
StoreNames == {"pairs", "total_pairs", "prices", "volume24h"}

\* The height of the first block of interest (package constant genesisBlock).
genesisBlock == 0

\* The one subscriber root.go creates (setupPrintPairUpdates).
Subscribers == {"pairSubscriber"}

NoValue == -1

\* What a block carries that the extractors look at.
Payloads == {[newPair |-> FALSE, swap |-> FALSE],
             [newPair |-> TRUE, swap |-> FALSE],
             [newPair |-> TRUE, swap |-> TRUE]}

(***************************************************************************)
(* The command line and the unsigned arithmetic of the block count.        *)
(***************************************************************************)
\* Unsigned values wrap at UintMod: the 2^64 of uint64, scaled to the heights
\* of the model so that every height, and every height plus a count given as
\* a number from 0 on, is a value below it.
UintMod == 2 * (MaxHeight + 1) + MaxCount

\* uint64(val), root.go:45
ToUint64(val) == val % UintMod

\* root.go:39, the block count without an argument (1000), scaled to the
\* heights of the model.
DefaultBlockCount == MaxCount

\* An argument is a sequence of characters.
DigitChars == <<"0", "1", "2", "3", "4", "5", "6", "7", "8", "9">>

IsDigit(c) == \E i \in 1 .. 10 : DigitChars[i] = c

DigitValue(c) == (CHOOSE i \in 1 .. 10 : DigitChars[i] = c) - 1

RECURSIVE DigitsValue(_)
DigitsValue(ds) ==
    IF ds = <<>> THEN 0
    ELSE DigitsValue(SubSeq(ds, 1, Len(ds) - 1)) * 10 + DigitValue(ds[Len(ds)])

\* strconv.ParseInt(a, 10, 64): an optional sign, then one or more digits.
ParseInt(a) ==
    LET signed == a # <<>> /\ a[1] \in {"-", "+"}
        digits == IF signed THEN Tail(a) ELSE a
        ok == digits # <<>> /\ \A i \in 1 .. Len(digits) : IsDigit(digits[i])
    IN  [err |-> ~ok,
         val |-> IF ~ok THEN 0
                 ELSE IF signed /\ a[1] = "-" THEN 0 - DigitsValue(digits)
                 ELSE DigitsValue(digits)]

\* The arguments the program is launched with: none, one count, one count
\* below zero, a first argument that is no integer, alone or followed by
\* another argument.
MinusOne == <<"-", "1">>

ArgStrings ==
    {<<DigitChars[n + 1]>> : n \in 0 .. MaxCount - 1} \cup {MinusOne, <<"x">>}

ArgLists ==
    {<<>>} \cup {<<a>> : a \in ArgStrings} \cup {<<(<<"x">>), (<<"1">>)>>}

VARIABLES
    \* ---- configuration of the current launch
    run,            \* launches so far
    args,           \* the command-line arguments
    startBlockNum,  \* viper "start-block"
    blockCount,     \* args[0], default 1000
    \* ---- durable state, kept across launches
    chain,          \* chain[h+1] is the payload of the block at height h
    ckpt,           \* checkpoints: set of [store, height, kv, applied]
    storeBlocks,    \* StoreBlock records: set of <<store, height>>
    \* ---- in-memory state of the launch
    pc,             \* position of the main / block-processing thread
    result,         \* what the handler (or runRoot) returned
    stores,         \* name -> [kv, deltas]
    hubTopics,      \* registered topics
    hubSubs,        \* topic -> set of subscribers
    queue,          \* subscriber -> pending deltas
    cur,            \* the block being handled
    ents,           \* entities extracted from cur
    loopDone,       \* stores already visited by the running map loop
    bi,             \* deltas of the running broadcast already enqueued
    pcC,            \* position of the consumer goroutine
    curDelta,       \* the delta the consumer holds
    \* ---- history (observations only, never read by the program)
    hist

vars == <<run, args, startBlockNum, blockCount, chain, ckpt, storeBlocks,
          pc, result, stores, hubTopics, hubSubs, queue, cur, ents,
          loopDone, bi, pcC, curDelta, hist>>

durable == <<chain, ckpt, storeBlocks>>
config == <<run, args, startBlockNum, blockCount>>
hubVars == <<hubTopics, hubSubs, queue>>
consumerVars == <<pcC, curDelta>>

(***************************************************************************)
(* Versioned State Store (package state; contract of spec section 4.1).    *)
(***************************************************************************)
EmptyKV == [k \in {} |-> NoValue]

NewStore == [kv |-> EmptyKV, deltas |-> <<>>]

Get(s, key) == IF key \in DOMAIN s.kv THEN s.kv[key] ELSE NoValue

\* A Set that records no delta when it overwrites a key.
Set_SilentOverwrite(s, name, key, value, height) ==
    [kv |-> [k \in DOMAIN s.kv \cup {key} |-> IF k = key THEN value ELSE s.kv[k]],
     deltas |-> IF key \in DOMAIN s.kv THEN s.deltas
                ELSE Append(s.deltas,
                  [store |-> name, key |-> key, op |-> "create",
                   old |-> NoValue, new |-> value, block |-> height])]

Set(s, name, key, value, height) ==
    [kv |-> [k \in DOMAIN s.kv \cup {key} |-> IF k = key THEN value ELSE s.kv[k]],
     deltas |-> Append(s.deltas,
                  [store |-> name, key |-> key,
                   op |-> IF key \in DOMAIN s.kv THEN "update" ELSE "create",
                   old |-> Get(s, key), new |-> value, block |-> height])]

Delete(s, name, key, height) ==
    IF key \notin DOMAIN s.kv THEN s
    ELSE [kv |-> [k \in DOMAIN s.kv \ {key} |-> s.kv[k]],
          deltas |-> Append(s.deltas,
                  [store |-> name, key |-> key, op |-> "delete",
                   old |-> s.kv[key], new |-> NoValue, block |-> height])]

Flush(s) == [s EXCEPT !.deltas = <<>>]

\* The checkpoints of a store at or before a height.
Usable(name, height) == {c \in ckpt : c.store = name /\ c.height <= height}

\* Init loads the most recent checkpoint at or before the height.
Latest(name, height) ==
    CHOOSE c \in Usable(name, height) :
        \A d \in Usable(name, height) : d.height <= c.height

\* A WriteState that writes the contents only for the store visited first at
\* a height and an empty artifact for the stores visited after it.
WithCheckpoint_FirstOnly(cs, name, height, kv, applied) ==
    {c \in cs : ~(c.store = name /\ c.height = height)}
        \cup {[store |-> name, height |-> height,
               kv |-> IF \E c \in cs : c.height = height /\ c.store # name
                      THEN EmptyKV ELSE kv,
               applied |-> applied]}

\* WriteState: one checkpoint artifact per store name and height.
WithCheckpoint(cs, name, height, kv, applied) ==
    {c \in cs : ~(c.store = name /\ c.height = height)}
        \cup {[store |-> name, height |-> height, kv |-> kv, applied |-> applied]}

(***************************************************************************)
(* Extractors and state-builders (package exchange): extractors are pure   *)
(* functions of the block and of the stores they are handed, builders      *)
(* write to their one store.                                               *)
(***************************************************************************)
PairKey(id) == <<"pair", id>>
TokensKey(id) == <<"tokens", id>>
PriceKey == <<"price", 0>>
TotalKey == <<"total", 0>>
VolumeKey(day) == <<"vol", day>>

NumPairs(s) == Cardinality({k \in DOMAIN s.kv : k[1] = "pair"})

OrZero(v) == IF v = NoValue THEN 0 ELSE v

\* pairExtractor.Map(blk): the pairs created in the block.
PairExtractorMap(blk) == IF blk.payload.newPair THEN <<blk.num>> ELSE <<>>

\* pairsStateBuilder.BuildState(pairs, pairsStore)
RECURSIVE PairsBuildState(_, _, _)
PairsBuildState(pairs, s, h) ==
    IF pairs = <<>> THEN s
    ELSE PairsBuildState(Tail(pairs),
            Set(Set(s, "pairs", PairKey(Head(pairs)), h, h),
                "pairs", TokensKey(Head(pairs)), h, h),
            h)

\* reservesExtractor.Map(blk, pairsStore): the reserve updates of the block
\* that resolve against a pair the pairs store knows.
ReservesExtractorMap(blk, pairsStore) ==
    IF blk.payload.swap THEN NumPairs(pairsStore) ELSE 0

\* pricesStateBuilder.BuildState(reserveUpdates, pairsStore, pricesStore)
PricesBuildState(reserveUpdates, pairsStore, s, h) ==
    IF reserveUpdates = 0 THEN s
    ELSE Set(s, "prices", PriceKey, reserveUpdates + NumPairs(pairsStore), h)

\* swapsExtractor.Map(blk, pairsStore, pricesStore): the swaps of the block,
\* valued with the price the prices store holds.
SwapsExtractorMap(blk, pairsStore, pricesStore) ==
    IF blk.payload.swap /\ NumPairs(pairsStore) > 0
    THEN OrZero(Get(pricesStore, PriceKey))
    ELSE 0

\* totalPairsStateBuilder.BuildState(pairs, swaps, totalPairsStore)
TotalPairsBuildState(pairs, swaps, s, h) ==
    IF Len(pairs) = 0 THEN s
    ELSE Set(s, "total_pairs", TotalKey, OrZero(Get(s, TotalKey)) + Len(pairs), h)

\* volume24hStateBuilder.BuildState(blk, swaps, volume24hStore): adds to the
\* current window and drops the window before it.
Volume24hBuildState(blk, swaps, s, h) ==
    IF swaps = 0 THEN s
    ELSE Set(Delete(s, "volume24h", VolumeKey(h - 1), h),
             "volume24h", VolumeKey(h), OrZero(Get(s, VolumeKey(h))) + swaps, h)

\* strings.HasPrefix(delta.Key, "pair")
HasPairPrefix(key) == key[1] = "pair"

(***************************************************************************)
(* runRoot: configuration and start-up.                                    *)
(***************************************************************************)
NoBlock == [num |-> -1, payload |-> [newPair |-> FALSE, swap |-> FALSE]]
NoEnts == [pairs |-> <<>>, reserveUpdates |-> 0, swaps |-> 0]
NoDelta == [store |-> "", key |-> <<"", 0>>, op |-> "", old |-> NoValue,
            new |-> NoValue, block |-> -1]

\* History of the block being handled, cleared when a block is delivered.
BlockHist(h, kvNow) ==
    [h EXCEPT !.extracted = {}, !.built = {}, !.stored = {},
              !.bcast = [s \in StoreNames |-> <<>>], !.bcastDone = {},
              !.recorded = [s \in StoreNames |-> <<>>],
              !.flushCnt = [s \in StoreNames |-> 0],
              !.kvAtEntry = kvNow]

\* History of a launch.
LaunchHist ==
    [extracted |-> {}, built |-> {}, stored |-> {},
     bcast |-> [s \in StoreNames |-> <<>>], bcastDone |-> {},
     recorded |-> [s \in StoreNames |-> <<>>],
     flushCnt |-> [s \in StoreNames |-> 0],
     kvAtEntry |-> [s \in StoreNames |-> EmptyKV],
     wrote |-> {}, saved |-> FALSE, stopFailed |-> {},
     inited |-> {}, loaded |-> [s \in StoreNames |-> -1],
     applied |-> [s \in StoreNames |-> <<>>],
     handled |-> <<>>,
     bcastLog |-> <<>>, received |-> <<>>,
     prevWrote |-> TRUE]

\* A run that never loads the stored state.
ForceLoadState_Never(start) == FALSE

\* A run that loads the stored state at the genesis height as well.
ForceLoadState_FromGenesis(start) == start >= genesisBlock

\* root.go:49-52
ForceLoadState(start) == start > genesisBlock

\* The state of a process that has just entered runRoot.
Launch(start, argv, wroteAll) ==
    /\ args' = argv
    /\ startBlockNum' = start
    /\ blockCount' = DefaultBlockCount
    /\ pc' = "args"
    /\ result' = "none"
    /\ stores' = [s \in StoreNames |-> NewStore]
    /\ hubTopics' = {}
    /\ hubSubs' = [t \in StoreNames |-> {}]
    /\ queue' = [u \in Subscribers |-> <<>>]
    /\ cur' = NoBlock
    /\ ents' = NoEnts
    /\ loopDone' = {}
    /\ bi' = 0
    /\ pcC' = "off"
    /\ curDelta' = NoDelta
    /\ hist' = [LaunchHist EXCEPT !.prevWrote = wroteAll]

Init ==
    /\ run = 1
    /\ args \in ArgLists
    /\ startBlockNum \in genesisBlock .. genesisBlock + 1
    /\ blockCount = DefaultBlockCount
    /\ chain = <<>>
    /\ ckpt = {}
    /\ storeBlocks = {}
    /\ pc = "args"
    /\ result = "none"
    /\ stores = [s \in StoreNames |-> NewStore]
    /\ hubTopics = {}
    /\ hubSubs = [t \in StoreNames |-> {}]
    /\ queue = [u \in Subscribers |-> <<>>]
    /\ cur = NoBlock
    /\ ents = NoEnts
    /\ loopDone = {}
    /\ bi = 0
    /\ pcC = "off"
    /\ curDelta = NoDelta
    /\ hist = LaunchHist

\* root.go:40-46: the block count is read from the first argument.  When it
\* is no integer the error message is built from args[1]; with one argument
\* that index is out of range and the program panics.
ParseArgsStep ==
    /\ pc = "args"
    /\ IF Len(args) > 0
       THEN IF ParseInt(args[1]).err
            THEN IF Len(args) >= 2
                 THEN /\ pc' = "failed"
                      /\ result' = "error: invalid block count"
                      /\ blockCount' = blockCount
                 ELSE /\ pc' = "crashed"
                      /\ result' = "panic: index out of range"
                      /\ blockCount' = blockCount
            ELSE /\ blockCount' = ToUint64(ParseInt(args[1]).val)
                 /\ pc' = "start"
                 /\ result' = result
       ELSE /\ pc' = "start"
            /\ UNCHANGED <<blockCount, result>>
    /\ UNCHANGED <<run, args, startBlockNum, durable, stores, hubVars, cur,
                   ents, loopDone, bi, consumerVars, hist>>

\* root.go:84-99: the cache is loaded (the outcome of Load is not looked at;
\* the entries of the cache are not part of this model), the four stores are
\* created empty.
RunRootSetup ==
    /\ pc = "start"
    /\ pc' = IF ForceLoadState(startBlockNum) THEN "loadState" ELSE "setupHub"
    /\ UNCHANGED <<config, durable, result, stores, hubVars, cur, ents,
                   loopDone, bi, consumerVars, hist>>

\* root.go:294-301 (loadStateFromDisk), one iteration of its map loop.
LoadStateStep ==
    /\ pc = "loadState"
    /\ \E s \in StoreNames \ loopDone :
        \E readable \in BOOLEAN :
            IF readable /\ Usable(s, startBlockNum) # {}
            THEN /\ stores' = [stores EXCEPT ![s] =
                        [kv |-> Latest(s, startBlockNum).kv, deltas |-> <<>>]]
                 /\ hist' = [hist EXCEPT
                        !.inited = @ \cup {s},
                        !.loaded[s] = Latest(s, startBlockNum).height,
                        !.applied[s] = Latest(s, startBlockNum).applied]
                 /\ loopDone' = IF loopDone \cup {s} = StoreNames
                                THEN {} ELSE loopDone \cup {s}
                 /\ pc' = IF loopDone \cup {s} = StoreNames
                          THEN "setupHub" ELSE "loadState"
                 /\ result' = result
            ELSE /\ result' = "error: could not load state"
                 /\ pc' = "failed"
                 /\ hist' = [hist EXCEPT !.inited = @ \cup {s}]
                 /\ UNCHANGED <<stores, loopDone>>
    /\ UNCHANGED <<config, durable, hubVars, cur, ents, bi,
                   consumerVars>>

\* root.go:144-157 (setupSubscriptionHub), one iteration of its map loop.
\* RegisterTopic fails on a topic registered before; zlog.Fatal ends the process.
RegisterTopicStep ==
    /\ pc = "setupHub"
    /\ \E s \in StoreNames \ loopDone :
        IF s \in hubTopics
        THEN /\ pc' = "fatal"
             /\ result' = "fatal: register topic"
             /\ UNCHANGED <<hubTopics, loopDone>>
        ELSE /\ hubTopics' = hubTopics \cup {s}
             /\ loopDone' = IF loopDone \cup {s} = StoreNames
                            THEN {} ELSE loopDone \cup {s}
             /\ pc' = IF loopDone \cup {s} = StoreNames
                      THEN "subscribe" ELSE "setupHub"
             /\ result' = result
    /\ UNCHANGED <<config, durable, stores, hubSubs, queue, cur,
                   ents, bi, consumerVars, hist>>

\* root.go:159-181 (setupPrintPairUpdates): subscribe to "pairs" and start
\* the consumer goroutine; then root.go:118-125 builds the handler and runs
\* the block source.
SubscribeStep ==
    /\ pc = "subscribe"
    /\ IF "pairs" \in hubTopics
       THEN /\ hubSubs' = [hubSubs EXCEPT !["pairs"] = @ \cup {"pairSubscriber"}]
            /\ pcC' = "next"
            /\ pc' = "idle"
            /\ result' = result
       ELSE /\ pc' = "fatal"
            /\ result' = "fatal: subscribe"
            /\ UNCHANGED <<hubSubs, pcC>>
    /\ UNCHANGED <<config, durable, stores, hubTopics, queue, cur,
                   ents, loopDone, bi, curDelta, hist>>

(***************************************************************************)
(* The handler returned by handlerFactory (root.go:192-291).               *)
(***************************************************************************)
\* The stop test with > in place of >=.
StopReached_Strict(num) == num > ToUint64(startBlockNum + blockCount)

\* A stop test that never holds.
StopReached_Never(num) == FALSE

\* root.go:196, a comparison of uint64 values
StopReached(num) == num >= ToUint64(startBlockNum + blockCount)

\* The handler's body without the flush loop.
After_NoFlush(step) ==
    CASE step = "extractPairs" -> "buildPairs"
      [] step = "buildPairs" -> "broadcast"
      [] step = "broadcast" -> "reserves"
      [] step = "reserves" -> "buildPrices"
      [] step = "buildPrices" -> "swaps"
      [] step = "swaps" -> "buildTotalPairs"
      [] step = "buildTotalPairs" -> "buildVolume24h"
      [] step = "buildVolume24h" -> "storeBlock"
      [] step = "storeBlock" -> "idle"
      [] step = "flush" -> "idle"

\* The handler's body with the flush loop moved before the StoreBlock loop.
After_FlushFirst(step) ==
    CASE step = "extractPairs" -> "buildPairs"
      [] step = "buildPairs" -> "broadcast"
      [] step = "broadcast" -> "reserves"
      [] step = "reserves" -> "buildPrices"
      [] step = "buildPrices" -> "swaps"
      [] step = "swaps" -> "buildTotalPairs"
      [] step = "buildTotalPairs" -> "buildVolume24h"
      [] step = "buildVolume24h" -> "flush"
      [] step = "flush" -> "storeBlock"
      [] step = "storeBlock" -> "idle"

\* The handler's body without the BroadcastDeltas call.
After_NoBroadcast(step) ==
    CASE step = "extractPairs" -> "buildPairs"
      [] step = "buildPairs" -> "reserves"
      [] step = "broadcast" -> "reserves"
      [] step = "reserves" -> "buildPrices"
      [] step = "buildPrices" -> "swaps"
      [] step = "swaps" -> "buildTotalPairs"
      [] step = "buildTotalPairs" -> "buildVolume24h"
      [] step = "buildVolume24h" -> "storeBlock"
      [] step = "storeBlock" -> "flush"
      [] step = "flush" -> "idle"

\* The handler's body with the reserves extractor and the prices builder
\* moved before the pairs builder.
After_PricesFirst(step) ==
    CASE step = "extractPairs" -> "reserves"
      [] step = "reserves" -> "buildPrices"
      [] step = "buildPrices" -> "buildPairs"
      [] step = "buildPairs" -> "broadcast"
      [] step = "broadcast" -> "swaps"
      [] step = "swaps" -> "buildTotalPairs"
      [] step = "buildTotalPairs" -> "buildVolume24h"
      [] step = "buildVolume24h" -> "storeBlock"
      [] step = "storeBlock" -> "flush"
      [] step = "flush" -> "idle"

\* The order of the statements of the handler's body for a block below the
\* stop height (root.go:216-290); "idle" is the return of nil.
After(step) ==
    CASE step = "extractPairs" -> "buildPairs"
      [] step = "buildPairs" -> "broadcast"
      [] step = "broadcast" -> "reserves"
      [] step = "reserves" -> "buildPrices"
      [] step = "buildPrices" -> "swaps"
      [] step = "swaps" -> "buildTotalPairs"
      [] step = "buildTotalPairs" -> "buildVolume24h"
      [] step = "buildVolume24h" -> "storeBlock"
      [] step = "storeBlock" -> "flush"
      [] step = "flush" -> "idle"

KVNow == [s \in StoreNames |-> stores[s].kv]

\* The block source (firehose, started at startBlockNum) hands the next block
\* to the handler, which first compares its height with the stop height.
Deliver ==
    /\ pc = "idle"
    /\ LET n == IF cur = NoBlock THEN startBlockNum ELSE cur.num + 1 IN
        /\ n <= MaxHeight
        /\ n <= Len(chain)
        /\ \E p \in Payloads :
            /\ n < Len(chain) => p = chain[n + 1]
            /\ chain' = IF n < Len(chain) THEN chain ELSE Append(chain, p)
            /\ cur' = [num |-> n, payload |-> p]
        /\ pc' = IF StopReached(n) THEN "writeState" ELSE "extractPairs"
    /\ ents' = NoEnts
    /\ hist' = BlockHist(hist, KVNow)
    /\ UNCHANGED <<config, ckpt, storeBlocks, result, stores, hubVars, loopDone, bi, consumerVars>>

\* root.go:201-203, one iteration: WriteState's outcome is not looked at.
WriteStateStep ==
    /\ pc = "writeState"
    /\ \E s \in StoreNames \ loopDone :
        \E ok \in BOOLEAN :
            /\ ckpt' = IF ok
                       THEN WithCheckpoint(ckpt, s, cur.num, stores[s].kv,
                                           hist.applied[s])
                       ELSE ckpt
            /\ hist' = [hist EXCEPT
                    !.wrote = @ \cup {s},
                    !.stopFailed = IF ok THEN @ ELSE @ \cup {s}]
            /\ loopDone' = IF loopDone \cup {s} = StoreNames
                           THEN {} ELSE loopDone \cup {s}
            /\ pc' = IF loopDone \cup {s} = StoreNames
                     THEN "saveCache" ELSE "writeState"
    /\ UNCHANGED <<config, chain, storeBlocks, result, stores, hubVars, cur, ents, bi, consumerVars>>

\* root.go:205-207: Save's outcome is not looked at; io.EOF is returned.
SaveCacheStep ==
    /\ pc = "saveCache"
    /\ \E ok \in BOOLEAN :
        /\ hist' = [hist EXCEPT
                !.saved = TRUE,
                !.stopFailed = IF ok THEN @ ELSE @ \cup {"rpcCache"}]
    /\ pc' = "stopped"
    /\ result' = "EOF"
    /\ UNCHANGED <<config, chain, ckpt, storeBlocks, stores,
                   hubVars, cur, ents, loopDone, bi, consumerVars>>

\* A failing step whose error is dropped: the handler returns nil.
Fail_ReturnsNil(msg) ==
    /\ pc' = "idle"
    /\ result' = msg

\* A failing step: the handler returns the wrapped error, runRoot returns it.
Fail(msg) ==
    /\ pc' = "failed"
    /\ result' = msg

\* root.go:216-220
ExtractPairsStep ==
    /\ pc = "extractPairs"
    /\ \E ok \in BOOLEAN :
        IF ok
        THEN /\ ents' = [ents EXCEPT !.pairs = PairExtractorMap(cur)]
             /\ hist' = [hist EXCEPT !.extracted = @ \cup {"pairs"}]
             /\ pc' = After("extractPairs")
             /\ result' = result
        ELSE /\ Fail("error: extracting pairs")
             /\ UNCHANGED <<ents, hist>>
    /\ UNCHANGED <<config, durable, stores, hubVars, cur, loopDone, bi,
                   consumerVars>>

\* The history of a builder that has run on store s.
BuiltHist(s, after) ==
    [hist EXCEPT !.built = @ \cup {s},
                 !.recorded[s] = after.deltas,
                 !.applied[s] = Append(@, cur.num)]

\* root.go:222-224
BuildPairsStep ==
    /\ pc = "buildPairs"
    /\ \E ok \in BOOLEAN :
        IF ok
        THEN LET after == PairsBuildState(ents.pairs, stores["pairs"], cur.num) IN
             /\ stores' = [stores EXCEPT !["pairs"] = after]
             /\ hist' = BuiltHist("pairs", after)
             /\ pc' = After("buildPairs")
             /\ result' = result
        ELSE /\ Fail("error: processing pair cache")
             /\ UNCHANGED <<stores, hist>>
    /\ UNCHANGED <<config, durable, hubVars, cur, ents, loopDone,
                   bi, consumerVars>>

(***************************************************************************)
(* Subscription hub (package subscription; contract of spec section 4.2).  *)
(***************************************************************************)
\* Every subscriber of the topic has room for one more delta.
HubHasRoom(topic) == \A u \in hubSubs[topic] : Len(queue[u]) < QueueCap

\* An enqueue that drops the delta for a subscriber with deltas pending.
HubEnqueue_DropWhenBusy(topic, d) ==
    [u \in Subscribers |->
        IF u \in hubSubs[topic] /\ queue[u] = <<>>
        THEN Append(queue[u], d) ELSE queue[u]]

\* One delta enqueued onto every subscriber of the topic.
HubEnqueue(topic, d) ==
    [u \in Subscribers |->
        IF u \in hubSubs[topic] THEN Append(queue[u], d) ELSE queue[u]]

\* A broadcast on a name that is no store's name.
BroadcastTopic_NoStore == "reserves"

\* root.go:226, the arguments of the one BroadcastDeltas call.
BroadcastTopic == "pairs"
BroadcastArg == stores["pairs"].deltas

\* root.go:226-231.  BroadcastDeltas enqueues the deltas in order; on a full
\* queue it waits for room (the step with room, taken later) or returns an
\* overflow error, whichever policy the hub has; an unknown topic is an error.
BroadcastStep ==
    /\ pc = "broadcast"
    /\ IF BroadcastTopic \notin hubTopics
       THEN /\ Fail("error: broadcasting deltas for topic [pairs]")
            /\ UNCHANGED <<queue, bi, hist>>
       ELSE IF bi = Len(BroadcastArg)
       THEN /\ pc' = After("broadcast")
            /\ bi' = 0
            /\ hist' = [hist EXCEPT !.bcastDone = @ \cup {BroadcastTopic}]
            /\ result' = result
            /\ queue' = queue
       ELSE IF HubHasRoom(BroadcastTopic)
       THEN /\ queue' = HubEnqueue(BroadcastTopic, BroadcastArg[bi + 1])
            /\ bi' = bi + 1
            /\ hist' = [hist EXCEPT
                    !.bcast[BroadcastTopic] = Append(@, BroadcastArg[bi + 1]),
                    !.bcastLog = IF hubSubs[BroadcastTopic] # {}
                                 THEN Append(@, BroadcastArg[bi + 1]) ELSE @]
            /\ UNCHANGED <<pc, result>>
       ELSE /\ Fail("error: broadcasting deltas for topic [pairs]")
            /\ UNCHANGED <<queue, bi, hist>>
    /\ UNCHANGED <<config, durable, stores, hubTopics, hubSubs, cur,
                   ents, loopDone, consumerVars>>

\* root.go:233-237
ReservesStep ==
    /\ pc = "reserves"
    /\ \E ok \in BOOLEAN :
        IF ok
        THEN /\ ents' = [ents EXCEPT
                    !.reserveUpdates = ReservesExtractorMap(cur, stores["pairs"])]
             /\ hist' = [hist EXCEPT !.extracted = @ \cup {"reserves"}]
             /\ pc' = After("reserves")
             /\ result' = result
        ELSE /\ Fail("error: processing reserves extractor")
             /\ UNCHANGED <<ents, hist>>
    /\ UNCHANGED <<config, durable, stores, hubVars, cur, loopDone,
                   bi, consumerVars>>

\* root.go:239-242
BuildPricesStep ==
    /\ pc = "buildPrices"
    /\ \E ok \in BOOLEAN :
        IF ok
        THEN LET after == PricesBuildState(ents.reserveUpdates, stores["pairs"],
                                           stores["prices"], cur.num) IN
             /\ stores' = [stores EXCEPT !["prices"] = after]
             /\ hist' = BuiltHist("prices", after)
             /\ pc' = After("buildPrices")
             /\ result' = result
        ELSE /\ Fail("error: pairs price building")
             /\ UNCHANGED <<stores, hist>>
    /\ UNCHANGED <<config, durable, hubVars, cur, ents, loopDone,
                   bi, consumerVars>>

\* root.go:244-249
SwapsStep ==
    /\ pc = "swaps"
    /\ \E ok \in BOOLEAN :
        IF ok
        THEN /\ ents' = [ents EXCEPT
                    !.swaps = SwapsExtractorMap(cur, stores["pairs"], stores["prices"])]
             /\ hist' = [hist EXCEPT !.extracted = @ \cup {"swaps"}]
             /\ pc' = After("swaps")
             /\ result' = result
        ELSE /\ Fail("error: swaps extractor")
             /\ UNCHANGED <<ents, hist>>
    /\ UNCHANGED <<config, durable, stores, hubVars, cur, loopDone,
                   bi, consumerVars>>

\* root.go:251-254
BuildTotalPairsStep ==
    /\ pc = "buildTotalPairs"
    /\ \E ok \in BOOLEAN :
        IF ok
        THEN LET after == TotalPairsBuildState(ents.pairs, ents.swaps,
                                               stores["total_pairs"], cur.num) IN
             /\ stores' = [stores EXCEPT !["total_pairs"] = after]
             /\ hist' = BuiltHist("total_pairs", after)
             /\ pc' = After("buildTotalPairs")
             /\ result' = result
        ELSE /\ Fail("error: processing total pairs")
             /\ UNCHANGED <<stores, hist>>
    /\ UNCHANGED <<config, durable, hubVars, cur, ents, loopDone,
                   bi, consumerVars>>

\* root.go:256-260
BuildVolume24hStep ==
    /\ pc = "buildVolume24h"
    /\ \E ok \in BOOLEAN :
        IF ok
        THEN LET after == Volume24hBuildState(cur, ents.swaps,
                                              stores["volume24h"], cur.num) IN
             /\ stores' = [stores EXCEPT !["volume24h"] = after]
             /\ hist' = BuiltHist("volume24h", after)
             /\ pc' = After("buildVolume24h")
             /\ result' = result
        ELSE /\ Fail("error: volume24 builder")
             /\ UNCHANGED <<stores, hist>>
    /\ UNCHANGED <<config, durable, hubVars, cur, ents, loopDone,
                   bi, consumerVars>>

\* root.go:272-277, one iteration of the map loop.
StoreBlockStep ==
    /\ pc = "storeBlock"
    /\ \E s \in StoreNames \ loopDone :
        \E ok \in BOOLEAN :
            IF ok
            THEN /\ storeBlocks' = storeBlocks \cup {<<s, cur.num>>}
                 /\ hist' = [hist EXCEPT !.stored = @ \cup {s}]
                 /\ loopDone' = IF loopDone \cup {s} = StoreNames
                                THEN {} ELSE loopDone \cup {s}
                 /\ pc' = IF loopDone \cup {s} = StoreNames
                          THEN After("storeBlock") ELSE "storeBlock"
                 /\ result' = result
            ELSE /\ Fail("error: store block")
                 /\ UNCHANGED <<storeBlocks, hist, loopDone>>
    /\ UNCHANGED <<config, chain, ckpt, stores, hubVars,
                   cur, ents, bi, consumerVars>>

\* The flush loop leaving the delta buffer of the pairs store as it is.
FlushStep_KeepsPairs ==
    /\ pc = "flush"
    /\ \E s \in StoreNames \ loopDone :
        /\ stores' = [stores EXCEPT ![s] = IF s = "pairs" THEN @ ELSE Flush(@)]
        /\ hist' = [hist EXCEPT
                !.flushCnt[s] = @ + 1,
                !.handled = IF loopDone \cup {s} = StoreNames
                            THEN Append(@, cur.num) ELSE @]
        /\ loopDone' = IF loopDone \cup {s} = StoreNames
                       THEN {} ELSE loopDone \cup {s}
        /\ pc' = IF loopDone \cup {s} = StoreNames
                 THEN After("flush") ELSE "flush"
    /\ UNCHANGED <<config, durable, result, hubVars, cur, ents, bi,
                   consumerVars>>

\* root.go:281-290, one iteration of the map loop; nil is returned after the
\* last one.
FlushStep ==
    /\ pc = "flush"
    /\ \E s \in StoreNames \ loopDone :
        /\ stores' = [stores EXCEPT ![s] = Flush(stores[s])]
        /\ hist' = [hist EXCEPT
                !.flushCnt[s] = @ + 1,
                !.handled = IF loopDone \cup {s} = StoreNames
                            THEN Append(@, cur.num) ELSE @]
        /\ loopDone' = IF loopDone \cup {s} = StoreNames
                       THEN {} ELSE loopDone \cup {s}
        /\ pc' = IF loopDone \cup {s} = StoreNames
                 THEN After("flush") ELSE "flush"
    /\ UNCHANGED <<config, durable, result, hubVars, cur, ents, bi,
                   consumerVars>>

(***************************************************************************)
(* The consumer goroutine of setupPrintPairUpdates (root.go:165-178).      *)
(***************************************************************************)
\* root.go:167-173: Next blocks until a delta is pending; a delta whose key
\* does not start with "pair" is skipped.
ConsumerNext ==
    /\ pcC = "next"
    /\ pc # "fatal"
    /\ queue["pairSubscriber"] # <<>>
    /\ LET d == Head(queue["pairSubscriber"]) IN
        /\ curDelta' = d
        /\ queue' = [queue EXCEPT !["pairSubscriber"] = Tail(@)]
        /\ hist' = [hist EXCEPT !.received = Append(@, d)]
        /\ pcC' = IF HasPairPrefix(d.key) THEN "print" ELSE "next"
    /\ UNCHANGED <<config, durable, pc, result, stores, hubTopics,
                   hubSubs, cur, ents, loopDone, bi>>

\* root.go:175: PrintDelta is called on the pairs store.
ConsumerPrint ==
    /\ pcC = "print"
    /\ pc # "fatal"
    /\ pcC' = "next"
    /\ UNCHANGED <<config, durable, pc, result, stores, hubVars,
                   cur, ents, loopDone, bi, curDelta, hist>>

(***************************************************************************)
(* The program is launched again with the height where the last run        *)
(* stopped as its start block (root.go:199: "next time start from there"), *)
(* with the same arguments or, after a stop that wrote every checkpoint,   *)
(* with a count below zero.                                                *)
(***************************************************************************)
Resume ==
    /\ pc = "stopped"
    /\ run < MaxRuns
    /\ run' = run + 1
    /\ \E argv \in {args} \cup (IF hist.stopFailed = {}
                               THEN {<<MinusOne>>} ELSE {}) :
        Launch(cur.num, argv,
               hist.prevWrote /\ hist.stopFailed \cap StoreNames = {})
    /\ UNCHANGED durable

Next ==
    \/ ParseArgsStep
    \/ RunRootSetup
    \/ LoadStateStep
    \/ RegisterTopicStep
    \/ SubscribeStep
    \/ Deliver
    \/ WriteStateStep
    \/ SaveCacheStep
    \/ ExtractPairsStep
    \/ BuildPairsStep
    \/ BroadcastStep
    \/ ReservesStep
    \/ BuildPricesStep
    \/ SwapsStep
    \/ BuildTotalPairsStep
    \/ BuildVolume24hStep
    \/ StoreBlockStep
    \/ FlushStep
    \/ ConsumerNext
    \/ ConsumerPrint
    \/ Resume

Spec == Init /\ [][Next]_vars

\* The main thread: runRoot and, driven by the block source's Run
\* (root.go:125), the handler; the source keeps delivering blocks.
MainThread ==
    \/ ParseArgsStep \/ RunRootSetup \/ LoadStateStep \/ RegisterTopicStep \/ SubscribeStep
    \/ Deliver \/ WriteStateStep \/ SaveCacheStep
    \/ ExtractPairsStep \/ BuildPairsStep \/ BroadcastStep \/ ReservesStep
    \/ BuildPricesStep \/ SwapsStep \/ BuildTotalPairsStep
    \/ BuildVolume24hStep \/ StoreBlockStep \/ FlushStep

\* The goroutine started at root.go:165.
ConsumerThread == ConsumerNext \/ ConsumerPrint

\* Both threads keep running while they can; a new launch is never forced.
FairSpec == Spec /\ WF_vars(MainThread) /\ WF_vars(ConsumerThread)

(***************************************************************************)
(* Properties.                                                             *)
(***************************************************************************)
HandlerSteps == {"extractPairs", "buildPairs", "broadcast", "reserves",
                 "buildPrices", "swaps", "buildTotalPairs", "buildVolume24h",
                 "storeBlock", "flush"}

\* The handler has returned nil for the block cur.
Returned == pc = "idle" /\ cur # NoBlock

Range(q) == {q[i] : i \in 1 .. Len(q)}

NoRepeat(q) == \A i, j \in 1 .. Len(q) : q[i] = q[j] => i = j

IsPrefix(p, q) == Len(p) <= Len(q) /\ p = SubSeq(q, 1, Len(p))

\* C1: a block at or above startBlockNum + blockCount takes the stop
\* transition: WriteState is invoked on all four stores, then Save on the
\* cache, then the end-of-stream sentinel is returned; for that block no
\* extractor and no builder runs, nothing is broadcast, no StoreBlock is
\* called and no store's contents change.
C1_StopTransition ==
    (cur # NoBlock /\ cur.num >= startBlockNum + blockCount) =>
        /\ pc \in {"writeState", "saveCache", "stopped"}
        /\ hist.extracted = {} /\ hist.built = {}
        /\ hist.bcastDone = {}
        /\ \A s \in StoreNames :
            /\ hist.bcast[s] = <<>>
            /\ hist.flushCnt[s] = 0
        /\ hist.stored = {}
        /\ KVNow = hist.kvAtEntry
        /\ hist.saved => hist.wrote = StoreNames
        /\ pc = "saveCache" => hist.wrote = StoreNames
        /\ pc = "stopped" => hist.wrote = StoreNames /\ hist.saved /\ result = "EOF"

\* C1 witness: the run has stopped at the stop height after handling blocks
\* that left contents in the pairs store.
C1_Witness ==
    /\ pc = "stopped" /\ result = "EOF"
    /\ cur.num >= startBlockNum + blockCount
    /\ hist.wrote = StoreNames /\ hist.saved
    /\ DOMAIN stores["pairs"].kv # {}

\* C2 (as claimed): when a step of a block has failed, no store's contents
\* differ from those at the handler's entry, no delta of the block has
\* reached the hub and no store holds a StoreBlock record of the block.
C2_NoPartialCommit ==
    (pc = "failed" /\ cur # NoBlock) =>
        /\ KVNow = hist.kvAtEntry
        /\ \A s \in StoreNames : hist.bcast[s] = <<>>
        /\ \A s \in StoreNames : <<s, cur.num>> \notin storeBlocks

\* C3 (as claimed): by the time a store is flushed, the deltas it recorded
\* during the block have been broadcast on the topic of its name, and a
\* broadcast of a store's deltas happens after its builder ran.
C3_EveryStoreBroadcast ==
    \A s \in StoreNames :
        /\ hist.flushCnt[s] > 0 => hist.bcast[s] = hist.recorded[s]
        /\ hist.bcast[s] # <<>> => s \in hist.built

\* C4 (as claimed): the run ends with the clean end-of-stream result only if
\* every WriteState and the cache's Save succeeded.
C4_StopErrorsNotSwallowed == result = "EOF" => hist.stopFailed = {}

\* C5: within a block every builder has run and the broadcast has returned
\* before the first StoreBlock, every StoreBlock has returned before the first
\* Flush, each store is flushed at most once and exactly once by the time the
\* handler returns, and a block is only begun when all blocks before it have
\* been handled to the end.
C5_StepOrder ==
    /\ hist.stored # {} =>
        hist.built = StoreNames /\ BroadcastTopic \in hist.bcastDone
    /\ (\E s \in StoreNames : hist.flushCnt[s] > 0) => hist.stored = StoreNames
    /\ \A s \in StoreNames : hist.flushCnt[s] <= 1
    /\ Returned =>
        /\ \A s \in StoreNames : hist.flushCnt[s] = 1 /\ stores[s].deltas = <<>>
        /\ hist.handled # <<>> /\ hist.handled[Len(hist.handled)] = cur.num
    /\ pc \in HandlerSteps =>
        hist.handled = [i \in 1 .. cur.num - startBlockNum |-> startBlockNum + i - 1]

\* C5 witness: a block that recorded pairs deltas has been handled to the end.
C5_Witness ==
    /\ Returned
    /\ hist.recorded["pairs"] # <<>>
    /\ hist.stored = StoreNames
    /\ \A s \in StoreNames : hist.flushCnt[s] = 1

\* The contents of the stores after one block, as one uninterrupted pass.
RefBlock(kvs, h, p) ==
    LET blk == [num |-> h, payload |-> p]
        st(s) == [kv |-> kvs[s], deltas |-> <<>>]
        prs == PairExtractorMap(blk)
        pairs1 == PairsBuildState(prs, st("pairs"), h)
        ru == ReservesExtractorMap(blk, pairs1)
        prices1 == PricesBuildState(ru, pairs1, st("prices"), h)
        sw == SwapsExtractorMap(blk, pairs1, prices1)
        total1 == TotalPairsBuildState(prs, sw, st("total_pairs"), h)
        vol1 == Volume24hBuildState(blk, sw, st("volume24h"), h)
    IN  [s \in StoreNames |->
            CASE s = "pairs" -> pairs1.kv
              [] s = "prices" -> prices1.kv
              [] s = "total_pairs" -> total1.kv
              [] s = "volume24h" -> vol1.kv]

\* The contents of the stores after the blocks genesisBlock .. n-1 of the chain.
RECURSIVE RefKV(_)
RefKV(n) ==
    IF n <= genesisBlock THEN [s \in StoreNames |-> EmptyKV]
    ELSE RefBlock(RefKV(n - 1), n - 1, chain[n])

NextHeight == IF cur = NoBlock THEN startBlockNum ELSE cur.num + 1

\* Every store has a checkpoint written at the start height.
CheckpointAtStart ==
    \A s \in StoreNames : \E c \in ckpt : c.store = s /\ c.height = startBlockNum

\* C6: a run resumed at the height h where the previous run stopped and wrote
\* its checkpoints (as every run before it did) has, at every block boundary, the store contents of an
\* uninterrupted run from genesis over the same blocks, and every block from
\* genesis on has been applied to every store exactly once, in order.
C6_ResumeEquivalence ==
    (run > 1 /\ hist.prevWrote /\ (pc = "idle" \/ pc = "stopped")) =>
        LET n == IF pc = "idle" THEN NextHeight ELSE cur.num IN
        /\ KVNow = RefKV(n)
        /\ \A s \in StoreNames :
            hist.applied[s] = [i \in 1 .. n - genesisBlock |-> genesisBlock + i - 1]

\* C6 witness: a resumed run has handled a block past its start height, and
\* the pairs store holds a pair of the first run and a pair of this run.
C6_Witness ==
    /\ run > 1 /\ CheckpointAtStart /\ Returned
    /\ startBlockNum > genesisBlock
    /\ \E a \in genesisBlock .. startBlockNum - 1 :
            PairKey(a) \in DOMAIN stores["pairs"].kv
    /\ PairKey(cur.num) \in DOMAIN stores["pairs"].kv

\* C7 (as claimed): the consumer goroutine is never inside a call on the
\* pairs store while the handler is at a step that mutates that store.
C7_SingleThreadAccess ==
    pcC = "print" => pc \notin {"buildPairs", "flush"}

\* C8: what the subscriber of "pairs" has received from Next is a prefix of
\* what was broadcast on "pairs" since it subscribed, nothing twice, and what
\* it has not received yet is pending in its queue in broadcast order.
C8_SubscriberOrder ==
    /\ IsPrefix(hist.received, hist.bcastLog)
    /\ NoRepeat(hist.received)
    /\ hist.received \o queue["pairSubscriber"] = hist.bcastLog

\* C8 witness: the subscriber has received deltas of two blocks while more are
\* pending in its queue.
C8_Witness ==
    /\ Len(hist.received) >= 3
    /\ hist.received[1].block # hist.received[3].block
    /\ queue["pairSubscriber"] # <<>>

\* C9 (as claimed): once a store has been flushed for a block, no delta of
\* that block and store is still pending in a subscriber's queue.
C9_FlushAfterObserved ==
    \A s \in StoreNames : hist.flushCnt[s] > 0 =>
        \A u \in Subscribers : \A i \in 1 .. Len(queue[u]) :
            ~(queue[u][i].store = s /\ queue[u][i].block = cur.num)

\* C9 (amended): once a store has been flushed for a block, the broadcast of
\* the store's delta buffer has returned for every topic that has a
\* subscriber: every delta the store recorded in the block has been enqueued
\* to each subscriber of its topic, where it is pending or already taken.
C9_FlushAfterEnqueued ==
    \A s \in StoreNames : hist.flushCnt[s] > 0 =>
        \A u \in hubSubs[s] :
            /\ Range(hist.recorded[s]) \subseteq Range(hist.received \o queue[u])
            /\ hist.bcast[s] = hist.recorded[s]

\* C9 witness: the pairs store has been flushed while a delta of the block is
\* still pending in the subscriber's queue.
C9_Witness ==
    /\ hist.flushCnt["pairs"] = 1
    /\ \E i \in 1 .. Len(queue["pairSubscriber"]) :
            queue["pairSubscriber"][i].block = cur.num

\* C10: within a block the pairs store is built before the reserves extractor
\* and the prices builder run, the prices store before the swaps extractor,
\* total_pairs and volume24h after both; what a dependent extractor read is
\* what the upstream stores hold with this block's mutations, and no store
\* holds mutations of a block after the current one.
C10_DependencyOrder ==
    /\ "reserves" \in hist.extracted => "pairs" \in hist.built
    /\ "prices" \in hist.built =>
        "pairs" \in hist.built /\ "reserves" \in hist.extracted
    /\ "swaps" \in hist.extracted => {"pairs", "prices"} \subseteq hist.built
    /\ "total_pairs" \in hist.built =>
        {"pairs", "prices"} \subseteq hist.built /\ "swaps" \in hist.extracted
    /\ "volume24h" \in hist.built =>
        {"pairs", "prices", "total_pairs"} \subseteq hist.built
    /\ ("reserves" \in hist.extracted /\ pc \in HandlerSteps) =>
        /\ ents.reserveUpdates = ReservesExtractorMap(cur, stores["pairs"])
        /\ cur.payload.newPair => PairKey(cur.num) \in DOMAIN stores["pairs"].kv
    /\ ("swaps" \in hist.extracted /\ pc \in HandlerSteps) =>
        ents.swaps = SwapsExtractorMap(cur, stores["pairs"], stores["prices"])
    /\ pc \in HandlerSteps =>
        \A s \in StoreNames : \A i \in 1 .. Len(hist.applied[s]) :
            hist.applied[s][i] <= cur.num

\* C10 witness: the swaps extractor has valued a swap of a block that also
\* created a pair, and the last two builders are about to run.
C10_Witness ==
    /\ pc = "buildTotalPairs"
    /\ cur.payload.newPair /\ cur.payload.swap
    /\ ents.swaps > 0
    /\ PairKey(cur.num) \in DOMAIN stores["pairs"].kv

\* The handler or runRoot has returned an error.
ErrorReturned == result \notin {"none", "EOF", "panic: index out of range"}

\* C11: when an extractor, a builder, the broadcast or a StoreBlock call
\* fails, the handler returns an error other than the end-of-stream sentinel
\* and the main thread is stopped; from then on no step of the block runs (no
\* store is mutated, stored or flushed, nothing is broadcast) and no later
\* block is handled.
C11_ErrorsHaltStream ==
    [][ErrorReturned' =>
        /\ pc' \in {"failed", "fatal"}
        /\ result' # "EOF"
        /\ ErrorReturned =>
            /\ UNCHANGED <<pc, result, cur, ents, stores, durable, loopDone, bi>>
            /\ UNCHANGED <<hist.extracted, hist.built, hist.stored, hist.bcast,
                           hist.flushCnt, hist.handled, hist.bcastLog>>]_vars

\* C11 witness: StoreBlock has failed on a store after it succeeded on
\* another one, and the subscriber has since taken a delta of the block.
C11_Witness ==
    /\ pc = "failed" /\ result = "error: store block"
    /\ hist.stored # {} /\ hist.stored # StoreNames
    /\ \A s \in StoreNames : hist.flushCnt[s] = 0
    /\ \E i \in 1 .. Len(hist.received) : hist.received[i].block = cur.num

\* C12: whenever the handler is entered for a block (and between blocks),
\* every store's delta buffer is empty, and every delta found in a buffer
\* while a block is handled was recorded by that block.
C12_BuffersEmptyAtBoundary ==
    /\ pc \in {"idle", "extractPairs", "writeState"} =>
        \A s \in StoreNames : stores[s].deltas = <<>>
    /\ \A s \in StoreNames : \A i \in 1 .. Len(stores[s].deltas) :
        /\ stores[s].deltas[i].block = cur.num
        /\ stores[s].deltas[i].store = s

\* C12 witness: the handler is entered for a block that follows, in the same
\* launch, a block that recorded deltas in the pairs store.
C12_Witness ==
    /\ pc = "extractPairs"
    /\ cur.num > startBlockNum
    /\ chain[cur.num].newPair
    /\ hist.handled # <<>>

(***************************************************************************)
(* The store on its own: any sequence of Set and Delete calls made on one  *)
(* store between two Flush calls, from any contents.                       *)
(***************************************************************************)
MaxOps == 3
StoreKeys == {PairKey(0), PairKey(1)}
StoreValues == {0, 1}

\* The contents a store may hold when a block begins.
StoreContents ==
    UNION {[ks -> StoreValues] : ks \in SUBSET StoreKeys}

StoreInit ==
    /\ run = 1
    /\ args = <<>>
    /\ startBlockNum = genesisBlock
    /\ blockCount = MaxCount
    /\ chain = <<>>
    /\ ckpt = {}
    /\ storeBlocks = {}
    /\ pc = "buildPairs"
    /\ result = "none"
    /\ \E kv0 \in StoreContents :
        /\ stores = [s \in StoreNames |-> [kv |-> kv0, deltas |-> <<>>]]
        /\ hist = [LaunchHist EXCEPT !.kvAtEntry = [s \in StoreNames |-> kv0]]
    /\ hubTopics = {}
    /\ hubSubs = [t \in StoreNames |-> {}]
    /\ queue = [u \in Subscribers |-> <<>>]
    /\ cur = [num |-> genesisBlock, payload |-> [newPair |-> FALSE, swap |-> FALSE]]
    /\ ents = NoEnts
    /\ loopDone = {}
    /\ bi = 0
    /\ pcC = "off"
    /\ curDelta = NoDelta

\* The store a builder is writing to has room for one more call.
BuilderOf(s) ==
    /\ Len(stores[s].deltas) < MaxOps
    /\ \A t \in StoreNames \ {s} : stores[t].deltas = <<>>

SetCall ==
    /\ \E s \in StoreNames : \E key \in StoreKeys : \E value \in StoreValues :
        /\ BuilderOf(s)
        /\ stores' = [stores EXCEPT ![s] = Set(@, s, key, value, cur.num)]
    /\ UNCHANGED <<config, durable, pc, result, hubVars, cur, ents, loopDone,
                   bi, consumerVars, hist>>

DeleteCall ==
    /\ \E s \in StoreNames : \E key \in StoreKeys :
        /\ BuilderOf(s)
        /\ stores' = [stores EXCEPT ![s] = Delete(@, s, key, cur.num)]
    /\ UNCHANGED <<config, durable, pc, result, hubVars, cur, ents, loopDone,
                   bi, consumerVars, hist>>

StoreNext == SetCall \/ DeleteCall

StoreSpec == StoreInit /\ [][StoreNext]_vars

\* The contents after one delta.
ApplyDelta(kv, d) ==
    IF d.op = "delete"
    THEN [k \in DOMAIN kv \ {d.key} |-> kv[k]]
    ELSE [k \in DOMAIN kv \cup {d.key} |-> IF k = d.key THEN d.new ELSE kv[k]]

\* The contents after the deltas, applied in order.
RECURSIVE ApplyDeltas(_, _)
ApplyDeltas(kv, ds) ==
    IF ds = <<>> THEN kv ELSE ApplyDeltas(ApplyDelta(kv, Head(ds)), Tail(ds))

\* The deltas a store recorded for the current block.
BlockDeltas(s) ==
    IF hist.flushCnt[s] > 0 THEN hist.recorded[s] ELSE stores[s].deltas

\* C13: for every store, the deltas recorded for the block, applied in the
\* recorded order to the contents the store had before the block, give the
\* contents the store has now, whatever Set and Delete calls were made.
C13_DeltaReplay ==
    cur # NoBlock =>
        \A s \in StoreNames :
            ApplyDeltas(hist.kvAtEntry[s], BlockDeltas(s)) = stores[s].kv

\* C13 witness: one key was created, overwritten with another value and then
\* deleted within the block, on a store that held another key before.
C13_Witness ==
    \E s \in StoreNames :
        LET ds == stores[s].deltas IN
        /\ Len(ds) = 3
        /\ ds[1].key = ds[2].key /\ ds[2].key = ds[3].key
        /\ ds[1].op = "create" /\ ds[2].op = "update" /\ ds[3].op = "delete"
        /\ ds[1].new # ds[2].new
        /\ DOMAIN hist.kvAtEntry[s] # {}

\* The last n elements of a sequence.
LastN(q, n) == SubSeq(q, Len(q) - n + 1, Len(q))

BroadcastError == "error: broadcasting deltas for topic [pairs]"

\* C14: BroadcastDeltas hands over the deltas of the call one by one in call
\* order and never past a full queue; when it has returned success, every
\* delta of the call is pending in the queue of, or was taken by, every
\* subscriber of the topic, in call order; when it returns an error the
\* handler returns it and no later step of the block runs.
C14_NoSilentDrop ==
    /\ \A u \in Subscribers : Len(queue[u]) <= QueueCap
    /\ pc = "broadcast" => hist.bcast[BroadcastTopic] = SubSeq(BroadcastArg, 1, bi)
    /\ BroadcastTopic \in hist.bcastDone =>
        /\ hist.bcast[BroadcastTopic] = hist.recorded[BroadcastTopic]
        /\ \A u \in hubSubs[BroadcastTopic] :
            /\ Len(hist.received \o queue[u]) >= Len(hist.recorded[BroadcastTopic])
            /\ LastN(hist.received \o queue[u], Len(hist.recorded[BroadcastTopic]))
                    = hist.recorded[BroadcastTopic]
    /\ result = BroadcastError =>
        /\ pc = "failed"
        /\ BroadcastTopic \notin hist.bcastDone
        /\ hist.extracted = {"pairs"} /\ hist.built = {"pairs"}
        /\ hist.stored = {}
        /\ \A s \in StoreNames : hist.flushCnt[s] = 0

\* C14 witness: a broadcast of two deltas has returned success after more
\* deltas were broadcast than a queue holds, and the queue is full.
C14_Witness ==
    /\ BroadcastTopic \in hist.bcastDone
    /\ Len(hist.recorded[BroadcastTopic]) = 2
    /\ Len(hist.bcastLog) > QueueCap
    /\ Len(queue["pairSubscriber"]) = QueueCap
    /\ queue["pairSubscriber"][QueueCap].block = cur.num

LoadError == "error: could not load state"

\* C15: with a start height above genesis, Init has been called on every
\* store, with the start height, before a topic is registered and before a
\* block is handled; when an Init fails the run ends with that error, no
\* topic is registered and no block is handled; with a start height at or
\* below genesis Init is called on no store.
C15_ResumeLoad ==
    /\ startBlockNum <= genesisBlock => hist.inited = {}
    /\ (startBlockNum > genesisBlock
            /\ (hubTopics # {} \/ cur # NoBlock
                    \/ pc \in {"setupHub", "subscribe", "idle"})) =>
        /\ hist.inited = StoreNames
        /\ \A s \in StoreNames :
            hist.loaded[s] >= 0 /\ hist.loaded[s] <= startBlockNum
    /\ pc = "loadState" => hubTopics = {} /\ cur = NoBlock /\ pcC = "off"
    /\ result = LoadError =>
        /\ pc = "failed" /\ cur = NoBlock /\ hist.handled = <<>>
        /\ hubTopics = {} /\ pcC = "off"
        /\ startBlockNum > genesisBlock

\* C15 witness: a run started above genesis has loaded every store, set up
\* the hub and handled a block on top of the loaded contents.
C15_Witness ==
    /\ startBlockNum > genesisBlock
    /\ hist.inited = StoreNames
    /\ hubTopics = StoreNames
    /\ Returned
    /\ \E a \in genesisBlock .. startBlockNum - 1 :
            PairKey(a) \in DOMAIN hist.kvAtEntry["pairs"]

\* The launch is a freshly initialised pipeline: it started at genesis with
\* empty stores.
FreshRun == startBlockNum = genesisBlock

\* C16: what a freshly initialised pipeline writes as a store's checkpoint is
\* a function of the block sequence and the height alone (the contents an
\* uninterrupted pass over the blocks gives), whatever order the map loops
\* visited the stores in; so two runs over one sequence write the same.
C16_Determinism ==
    (FreshRun /\ pc \in {"writeState", "saveCache", "stopped"}) =>
        /\ KVNow = RefKV(cur.num)
        /\ \A s \in hist.wrote \ hist.stopFailed :
            \E c \in ckpt :
                /\ c.store = s /\ c.height = cur.num
                /\ c.kv = RefKV(cur.num)[s]
                /\ \A d \in ckpt : (d.store = s /\ d.height = cur.num) => d = c

\* C16 witness: a fresh run over two blocks has written the checkpoints of
\* all four stores, those of pairs and prices with contents.
C16_Witness ==
    /\ FreshRun /\ pc = "stopped"
    /\ cur.num = genesisBlock + 2
    /\ hist.wrote = StoreNames /\ hist.stopFailed = {}
    /\ \A s \in {"pairs", "prices", "total_pairs", "volume24h"} :
        \E c \in ckpt : c.store = s /\ c.height = cur.num /\ DOMAIN c.kv # {}

\* The launch has ended: the handler returned end-of-stream or an error, or
\* runRoot returned an error.
Ended == pc \in {"stopped", "failed"}

\* C17: a launch whose stop height the source reaches, and in which no step
\* fails, ends with the stop transition; and once the handler has returned
\* end-of-stream or an error the launch stays ended: no block is handled and
\* no store is mutated, persisted or flushed again.
C17_Termination ==
    /\ (pc = "start" /\ ToUint64(startBlockNum + blockCount) <= MaxHeight)
            ~> (pc \in {"stopped", "failed", "fatal", "crashed"})
    /\ [][(Ended /\ run' = run) =>
            /\ UNCHANGED <<pc, result, cur, stores, durable, loopDone, bi, ents>>
            /\ UNCHANGED <<hist.built, hist.stored, hist.flushCnt, hist.wrote,
                           hist.saved, hist.handled>>]_vars

\* C17 witness: a run has handled two blocks and ended with the stop
\* transition, and the consumer has since taken a delta.
C17_Witness ==
    /\ pc = "stopped" /\ result = "EOF"
    /\ Len(hist.handled) = 2
    /\ cur.num = startBlockNum + blockCount
    /\ hist.received # <<>>
    /\ queue["pairSubscriber"] = <<>>

\* C18 (as claimed): a block that is handled has a height below
\* startBlockNum + blockCount; a run that has stopped has handled the blocks
\* startBlockNum .. startBlockNum + blockCount - 1, each once and in order,
\* the block that took the stop transition is the one at
\* startBlockNum + blockCount, and the checkpoints written at the stop hold
\* the stores' contents after the handled blocks.
C18_ExactlyBlockCount ==
    /\ pc \in HandlerSteps => cur.num < startBlockNum + blockCount
    /\ pc = "stopped" =>
        /\ cur.num = startBlockNum + blockCount
        /\ hist.handled = [i \in 1 .. blockCount |-> startBlockNum + i - 1]
        /\ \A s \in hist.wrote \ hist.stopFailed :
            \E c \in ckpt :
                c.store = s /\ c.height = cur.num /\ c.kv = stores[s].kv

\* C19: by the time the subscriber subscribes, and so before any block is
\* handled, the registered topics are the four store names; while the topics
\* are registered each visited name has been registered and no other, and a
\* registration never meets a registered name; the Subscribe and the
\* broadcast on "pairs" find their topic.
C19_TopicsBeforeUse ==
    /\ (pc = "subscribe" \/ pcC # "off" \/ cur # NoBlock) => hubTopics = StoreNames
    /\ pc = "setupHub" => hubTopics = loopDone
    /\ hubTopics \subseteq StoreNames
    /\ pc # "fatal"
    /\ result \notin {"fatal: register topic", "fatal: subscribe"}
    /\ pc = "broadcast" => BroadcastTopic \in hubTopics
    /\ hubSubs["pairs"] # {} => "pairs" \in hubTopics

\* C19 witness: the broadcast on "pairs" is handing deltas to the subscriber,
\* all four topics being registered.
C19_Witness ==
    /\ pc = "broadcast" /\ bi > 0
    /\ hubTopics = StoreNames
    /\ hubSubs["pairs"] = {"pairSubscriber"}
    /\ queue["pairSubscriber"] # <<>>

\* C20 (as claimed): when the first argument is no integer, runRoot returns
\* the "invalid block count" error, the program does not crash, and nothing
\* has been set up: no store is loaded, no topic registered, no subscriber
\* started and no block handled.
C20_InvalidBlockCount ==
    (Len(args) > 0 /\ ParseInt(args[1]).err /\ pc # "args") =>
        /\ pc = "failed"
        /\ result = "error: invalid block count"
        /\ hist.inited = {} /\ hubTopics = {} /\ pcC = "off" /\ cur = NoBlock

====
